---------------------------- MODULE Spec2Model ----------------------------
(***************************************************************************)
(* A model of dpgen2/op/run_lmp.py: the RunLmp operator (RunLmp.execute)   *)
(* and the two driver-file patching functions add_teacher_model and        *)
(* randomly_shuffle_models, with their helper find_only_one_key.           *)
(*                                                                         *)
(* Text.  A Python str is modelled as a sequence of chunks.  A chunk is    *)
(* one of the two whitespace characters " " and "\n", or an indivisible    *)
(* piece of non-whitespace text ("pair_style", "deepmd", a model file      *)
(* name, or the filler word "x").  Adjacent non-whitespace chunks form one *)
(* whitespace-separated token, so <<"x", "model.000.pb">> is the single    *)
(* token "xmodel.000.pb".  No chunk is a concatenation of others and no    *)
(* model name straddles two chunks, so str.split, str.find, str.replace,   *)
(* str.join and re.fullmatch are computed exactly on this representation.  *)
(***************************************************************************)
EXTENDS Integers, Sequences, FiniteSets, TLC

\* ------------------------------------------------------------- bounds
\* most tokens after "pair_style deepmd" on a generated keyword line
MaxToks == 3
\* most models the caller supplies
MaxModels == 2

\* ---------------------------------------------------------- constants
SP == " "
NL == "\n"
WS == {SP, NL}
X == "x"

\* dpgen2.constants.model_name_pattern % i: the file name of the model of index i
ModelNames == <<"model.000.pb", "model.001.pb", "model.002.pb", "model.003.pb">>
model_name_pattern(i) == ModelNames[i + 1]
\* re.fullmatch(dpgen2.constants.model_name_match_pattern, tok) is not None
model_name_match(tok) ==
    Len(tok) = 1 /\ \E i \in 1..Len(ModelNames) : tok[1] = ModelNames[i]

lmp_input_name == "in.lammps"
lmp_conf_name == "conf.lmp"
lmp_log_name == "log.lammps"
lmp_traj_name == "traj.dump"
lmp_model_devi_name == "model_devi.out"
plm_output_name == "output.plumed.out"

\* the key handed to find_only_one_key by both patching functions
PairStyleKey == << <<"pair_style">>, <<"deepmd">> >>

\* ------------------------------------------------------ str operations
RECURSIVE Concat(_)
\* "".join(strs)
Concat(strs) == IF strs = <<>> THEN <<>> ELSE Head(strs) \o Concat(Tail(strs))

RECURSIVE JoinSp(_)
\* " ".join(words)
JoinSp(words) ==
    IF words = <<>> THEN <<>>
    ELSE IF Len(words) = 1 THEN words[1]
    ELSE words[1] \o <<SP>> \o JoinSp(Tail(words))

RECURSIVE ReadLinesFrom(_, _)
ReadLinesFrom(s, cur) ==
    IF s = <<>> THEN (IF cur = <<>> THEN <<>> ELSE <<cur>>)
    ELSE IF Head(s) = NL THEN <<cur \o <<NL>>>> \o ReadLinesFrom(Tail(s), <<>>)
    ELSE ReadLinesFrom(Tail(s), cur \o <<Head(s)>>)

\* f.readlines(): every line keeps its terminating "\n"; the last may lack one
readlines(s) == ReadLinesFrom(s, <<>>)

RECURSIVE SplitFrom(_, _)
SplitFrom(s, cur) ==
    IF s = <<>> THEN (IF cur = <<>> THEN <<>> ELSE <<cur>>)
    ELSE IF Head(s) \in WS
         THEN (IF cur = <<>> THEN <<>> ELSE <<cur>>) \o SplitFrom(Tail(s), <<>>)
         ELSE SplitFrom(Tail(s), cur \o <<Head(s)>>)

\* str.split(): the whitespace-separated tokens, none empty
split(s) == SplitFrom(s, <<>>)

\* line.find(name) != -1
Contains(line, name) == \E i \in 1..Len(line) : line[i] = name

RECURSIVE replace(_, _, _)
\* line.replace(old, new): every occurrence of the chunk `old` becomes `new`
replace(line, old, new) ==
    IF line = <<>> THEN <<>>
    ELSE (IF Head(line) = old THEN new ELSE <<Head(line)>>)
         \o replace(Tail(line), old, new)

\* words[:n]
Take(words, n) == SubSeq(words, 1, IF n < Len(words) THEN n ELSE Len(words))

\* ---------------------------------------------------- find_only_one_key
\* the list `found` built by the loop, as zero-based line indices in order
FoundKeys(lmp_lines, key) ==
    LET nkey == Len(key)
        hit(i) == LET words == split(lmp_lines[i + 1])
                  IN Len(words) >= nkey /\ Take(words, nkey) = key
    IN {i \in 0..(Len(lmp_lines) - 1) : hit(i)}

Min(S) == CHOOSE m \in S : \A n \in S : m <= n

find_only_one_key(lmp_lines, key) ==
    LET found == FoundKeys(lmp_lines, key)
    IN IF Cardinality(found) > 1 THEN [exc |-> "RuntimeError", idx |-> -1]
       ELSE IF Cardinality(found) = 0 THEN [exc |-> "RuntimeError", idx |-> -1]
       ELSE [exc |-> "none", idx |-> Min(found)]

\* ---------------------------------------------------- add_teacher_model
add_teacher_model(content) ==
    LET lmp_input_lines == readlines(content)
        k == find_only_one_key(lmp_input_lines, PairStyleKey)
        model0_pattern == model_name_pattern(0)
        line == lmp_input_lines[k.idx + 1]
        newline == replace(line, model0_pattern,
                           JoinSp(<< <<model_name_pattern(0)>>, <<model_name_pattern(1)>> >>))
    IN IF k.exc # "none" THEN [exc |-> k.exc, out |-> content]
       ELSE IF ~Contains(line, model0_pattern)
            THEN [exc |-> "AssertionError", out |-> content]
       ELSE [exc |-> "none",
             out |-> Concat([lmp_input_lines EXCEPT ![k.idx + 1] = newline])]

\* ---------------------------------------------- randomly_shuffle_models
RECURSIVE ScanRun(_, _, _)
\* the first loop: <<match_first, match_last>> after scanning from sidx on
ScanRun(new_line_split, sidx, match_first) ==
    IF sidx >= Len(new_line_split) THEN <<match_first, -1>>
    ELSE IF model_name_match(new_line_split[sidx + 1])
         THEN ScanRun(new_line_split, sidx + 1,
                      IF match_first = -1 THEN sidx ELSE match_first)
         ELSE IF match_first # -1 THEN <<match_first, sidx>>
              ELSE ScanRun(new_line_split, sidx + 1, match_first)

\* the second loop: a token from match_last on that matches the pattern
RecursAfter(new_line_split, match_last) ==
    \E ii \in match_last..(Len(new_line_split) - 1) :
        model_name_match(new_line_split[ii + 1])

\* every order random.shuffle can leave tmp in
Shuffles(tmp) ==
    LET n == Len(tmp)
        perms == {p \in [1..n -> 1..n] : \A i, j \in 1..n : p[i] = p[j] => i = j}
    IN {[i \in 1..n |-> tmp[p[i]]] : p \in perms}

\* lines 295-301: the contents the file can be rewritten to, one per order
ShuffledFiles(lmp_input_lines, idx, new_line_split, match_first, match_last) ==
    {Concat([lmp_input_lines EXCEPT ![idx + 1] =
                JoinSp(SubSeq(new_line_split, 1, match_first)
                       \o tmp
                       \o SubSeq(new_line_split, match_last + 1, Len(new_line_split)))])
     : tmp \in Shuffles(SubSeq(new_line_split, match_first + 1, match_last))}

\* a variant that rewrites the file before it looks for a second group
randomly_shuffle_models_WriteFirst(content) ==
    LET lmp_input_lines == readlines(content)
        k == find_only_one_key(lmp_input_lines, PairStyleKey)
        new_line_split == split(lmp_input_lines[k.idx + 1])
        m == ScanRun(new_line_split, 0, -1)
        raise == {[exc |-> "RuntimeError", out |-> content]}
    IN IF k.exc # "none" THEN raise
       ELSE IF m[1] = -1 THEN raise
       ELSE IF m[2] = -1 THEN raise
       ELSE {[exc |-> IF RecursAfter(new_line_split, m[2]) THEN "RuntimeError" ELSE "none",
              out |-> f]
             : f \in ShuffledFiles(lmp_input_lines, k.idx, new_line_split, m[1], m[2])}

\* the set of outcomes of one call (one per order of the shuffle)
randomly_shuffle_models(content) ==
    LET lmp_input_lines == readlines(content)
        k == find_only_one_key(lmp_input_lines, PairStyleKey)
        new_line_split == split(lmp_input_lines[k.idx + 1])
        m == ScanRun(new_line_split, 0, -1)
        match_first == m[1]
        match_last == m[2]
        raise == {[exc |-> "RuntimeError", out |-> content]}
    IN IF k.exc # "none" THEN raise
       ELSE IF match_first = -1 THEN raise
       ELSE IF match_last = -1 THEN raise
       ELSE IF RecursAfter(new_line_split, match_last) THEN raise
       ELSE {[exc |-> "none", out |-> f]
             : f \in ShuffledFiles(lmp_input_lines, k.idx, new_line_split,
                                   match_first, match_last)}

\* ------------------------------------------------------- driver files
TokAlphabet == {<<ModelNames[1]>>, <<ModelNames[2]>>, <<X>>, <<X, ModelNames[1]>>}
KwTails(max) == UNION {[1..n -> TokAlphabet] : n \in 0..max}
\* "pair_style  deepmd tok tok ..." (two blanks after pair_style)
KwLine(tail) == <<"pair_style", SP, SP, "deepmd">>
                \o (IF tail = <<>> THEN <<>> ELSE <<SP>> \o JoinSp(tail))
PreLines == {<<>>, <<X, SP, SP, ModelNames[1], NL>>}
PostLines == {<<X, NL>>, <<"pair_style", SP, X, NL>>,
              <<"pair_style", SP, "deepmd", SP, ModelNames[1], NL>>}
FilesUpTo(max) ==
    {pre \o KwLine(t) \o <<NL>> \o post :
        pre \in PreLines, t \in KwTails(max), post \in PostLines}
    \cup {pre \o KwLine(t) \o end :
        pre \in PreLines, t \in KwTails(max), end \in {<<>>, <<NL>>}}
    \cup {pre \o post :
        pre \in PreLines, post \in {<<>>, <<X, NL>>, <<"pair_style", SP, X, NL>>}}
\* the driver files a task directory may hold
DriverFiles == FilesUpTo(MaxToks)


\* ------------------------------------------------------ RunLmp.execute
\* configurations handed to execute: the options execute reads, and whether
\* the mapping holds a key lmp_args does not declare
Configs == [teacher_model_path : BOOLEAN, shuffle_models : BOOLEAN,
            impl : {"tensorflow", "pytorch", "jax"}, unknown_key : BOOLEAN]
\* model artifacts: 0 is the teacher model, 1.. are the caller's models
TeacherModel == 0
ModelLists == UNION {{[i \in 1..n |-> i]} : n \in 1..MaxModels}
\* the listings of task_path
InputSets == {{lmp_conf_name, lmp_input_name}, {lmp_conf_name},
              {lmp_conf_name, lmp_input_name, ModelNames[1]}}
OutputNames == {lmp_log_name, lmp_traj_name, lmp_model_devi_name, plm_output_name}
OrigDir == "cwd"
TaskDir == "task_name"

VARIABLES
    cfg,          \* ip["config"]
    models,       \* ip["models"]
    inputs,       \* the names Path(task_path).iterdir() yields
    pc,           \* position in execute
    cwd,          \* the process's current working directory
    saved,        \* the directory set_directory restores on exit
    model_files,  \* the local model_files
    idx,          \* the model loop's idx
    workdir,      \* the task directory: file name -> what it refers to
    file,         \* content of the driver file
    opened,       \* whether the driver file's content has been read yet
    file0,        \* content of the driver file when it was first read
    last,         \* the latest patching call: function, content before, exception
    exc,          \* the exception that ended execute
    steps,        \* the steps performed so far, in order
    result        \* the OPIO returned

vars == <<cfg, models, inputs, pc, cwd, saved, model_files, idx, workdir,
          file, opened, file0, last, exc, steps, result>>

NoCall == [fn |-> "none", before |-> <<>>, exc |-> "none"]
NoResult == [returned |-> FALSE, keys |-> {}]

Init ==
    /\ cfg \in Configs
    /\ models \in ModelLists
    /\ inputs \in InputSets
    /\ pc = "start"
    /\ cwd = OrigDir
    /\ saved = OrigDir
    /\ model_files = <<>>
    /\ idx = 0
    /\ workdir = <<>>
    /\ file = <<>>
    /\ opened = FALSE
    /\ file0 = <<>>
    /\ last = NoCall
    /\ exc = "none"
    /\ steps = <<>>
    /\ result = NoResult

\* dpgen2.utils.set_directory: enter changes into the directory, exit (normal
\* or by an exception) changes back to the directory saved on entry
set_directory_enter(dir) == dir
set_directory_exit(prev) == prev

\* a variant whose with block ends before the simulation command
WithBody_CommandOutside == {"link_inputs", "link_models", "teacher_patch", "shuffle_patch"}

\* the positions inside the body of `with set_directory(work_dir):`
WithBody == {"link_inputs", "link_models", "teacher_patch", "shuffle_patch", "run_lmp"}

\* a step ran: ok unless it raised; ret is the exit code of a command (0 for the rest)
Step(op, ok, ret) == steps' = Append(steps, [op |-> op, ok |-> ok, ret |-> ret])

\* an exception propagates out of execute, through the with block if inside it
Raise(e) ==
    /\ pc' = "raised"
    /\ exc' = e
    /\ cwd' = IF pc \in WithBody THEN set_directory_exit(saved) ELSE cwd

\* a variant that takes only a negative exit code for a failure
FreezeFailed_Negative(ret) == ret < 0

\* whether the command's exit code makes execute raise TransientError
FreezeFailed(ret) == ret # 0
LmpFailed(ret) == ret # 0

\* lines 114-127: normalize_config (strict: an undeclared key is rejected)
Normalize ==
    /\ pc = "start"
    /\ IF cfg.unknown_key
       THEN Raise("ArgumentKeyError")
       ELSE pc' = "teacher_prep" /\ UNCHANGED <<exc, cwd>>
    /\ UNCHANGED <<cfg, models, inputs, saved, model_files, idx, workdir,
                   file, opened, file0, last, steps, result>>

\* lines 126, 129-134
TeacherPrep ==
    /\ pc = "teacher_prep"
    /\ IF cfg.teacher_model_path
       THEN IF Len(models) = 1
            THEN /\ model_files' = <<TeacherModel>> \o models
                 /\ pc' = "enter"
                 /\ UNCHANGED <<exc, cwd>>
            ELSE /\ Raise("AssertionError")
                 /\ UNCHANGED model_files
       ELSE /\ model_files' = models
            /\ pc' = "enter"
            /\ UNCHANGED <<exc, cwd>>
    /\ UNCHANGED <<cfg, models, inputs, saved, idx, workdir,
                   file, opened, file0, last, steps, result>>

\* line 136
Enter ==
    /\ pc = "enter"
    /\ saved' = cwd
    /\ cwd' = set_directory_enter(TaskDir)
    /\ pc' = "link_inputs"
    /\ UNCHANGED <<cfg, models, inputs, model_files, idx, workdir,
                   file, opened, file0, last, exc, steps, result>>

\* lines 138-140
LinkInputs ==
    /\ pc = "link_inputs"
    /\ workdir' = [n \in inputs |-> [kind |-> "input", src |-> -1]]
    /\ Step("link_inputs", TRUE, 0)
    /\ pc' = "link_models"
    /\ UNCHANGED <<cfg, models, inputs, cwd, saved, model_files, idx,
                   file, opened, file0, last, exc, result>>

\* lines 142-145: one iteration of the model loop, impl == "tensorflow"
LinkModel ==
    /\ pc = "link_models" /\ idx < Len(model_files) /\ cfg.impl = "tensorflow"
    /\ LET mname == model_name_pattern(idx)
       IN IF mname \in DOMAIN workdir
          THEN /\ Raise("FileExistsError")
               /\ Step("link_model", FALSE, 0)
               /\ UNCHANGED <<workdir, idx>>
          ELSE /\ workdir' = workdir @@ (mname :> [kind |-> "model", src |-> model_files[idx + 1]])
               /\ Step("link_model", TRUE, 0)
               /\ idx' = idx + 1
               /\ UNCHANGED <<pc, exc, cwd>>
    /\ UNCHANGED <<cfg, models, inputs, saved, model_files,
                   file, opened, file0, last, result>>

\* lines 146-165: one iteration of the model loop, impl == "pytorch"
FreezeModel ==
    /\ pc = "link_models" /\ idx < Len(model_files) /\ cfg.impl = "pytorch"
    /\ \E ret \in {0, 1} :
        LET mname == model_name_pattern(idx)
        IN IF FreezeFailed(ret)
           THEN /\ Raise("TransientError")
                /\ Step("freeze", FALSE, ret)
                /\ UNCHANGED <<workdir, idx>>
           ELSE /\ workdir' = (mname :> [kind |-> "frozen", src |-> model_files[idx + 1]]) @@ workdir
                /\ Step("freeze", TRUE, ret)
                /\ idx' = idx + 1
                /\ UNCHANGED <<pc, exc, cwd>>
    /\ UNCHANGED <<cfg, models, inputs, saved, model_files,
                   file, opened, file0, last, result>>

\* lines 142-146: one iteration of the model loop, impl neither of the two
PassModel ==
    /\ pc = "link_models" /\ idx < Len(model_files)
    /\ cfg.impl \notin {"tensorflow", "pytorch"}
    /\ idx' = idx + 1
    /\ UNCHANGED <<cfg, models, inputs, pc, cwd, saved, model_files, workdir,
                   file, opened, file0, last, exc, steps, result>>

\* line 142: the model loop ends
ModelsDone ==
    /\ pc = "link_models" /\ idx = Len(model_files)
    /\ pc' = "teacher_patch"
    /\ UNCHANGED <<cfg, models, inputs, cwd, saved, model_files, idx, workdir,
                   file, opened, file0, last, exc, steps, result>>

\* a variant that keeps the lines read by the first patching call
Readable_Stale == IF opened THEN {file0} ELSE DriverFiles

\* open(lmp_input_name): the contents a read can find in the task directory
Readable == IF opened THEN {file} ELSE DriverFiles

\* a patching function ran on `content` and ended with outcome r
Patched(fn, content, r, next) ==
    /\ file' = r.out
    /\ opened' = TRUE
    /\ file0' = IF opened THEN file0 ELSE content
    /\ last' = [fn |-> fn, before |-> content, exc |-> r.exc]
    /\ IF r.exc = "none"
       THEN pc' = next /\ Step(fn, TRUE, 0) /\ UNCHANGED <<exc, cwd>>
       ELSE Raise(r.exc) /\ Step(fn, FALSE, 0)

NoDriverFile(fn) ==
    /\ Raise("FileNotFoundError")
    /\ Step(fn, FALSE, 0)
    /\ UNCHANGED <<file, opened, file0, last>>

\* lines 167-168
TeacherPatch ==
    /\ pc = "teacher_patch" /\ cfg.teacher_model_path
    /\ IF lmp_input_name \notin DOMAIN workdir
       THEN NoDriverFile("add_teacher_model")
       ELSE \E content \in Readable :
              Patched("add_teacher_model", content, add_teacher_model(content),
                      "shuffle_patch")
    /\ UNCHANGED <<cfg, models, inputs, saved, model_files, idx, workdir, result>>

SkipTeacherPatch ==
    /\ pc = "teacher_patch" /\ ~cfg.teacher_model_path
    /\ pc' = "shuffle_patch"
    /\ UNCHANGED <<cfg, models, inputs, cwd, saved, model_files, idx, workdir,
                   file, opened, file0, last, exc, steps, result>>

\* lines 170-171
ShufflePatch ==
    /\ pc = "shuffle_patch" /\ cfg.shuffle_models
    /\ IF lmp_input_name \notin DOMAIN workdir
       THEN NoDriverFile("randomly_shuffle_models")
       ELSE \E content \in Readable :
              \E r \in randomly_shuffle_models(content) :
                 Patched("randomly_shuffle_models", content, r, "run_lmp")
    /\ UNCHANGED <<cfg, models, inputs, saved, model_files, idx, workdir, result>>

SkipShufflePatch ==
    /\ pc = "shuffle_patch" /\ ~cfg.shuffle_models
    /\ pc' = "run_lmp"
    /\ UNCHANGED <<cfg, models, inputs, cwd, saved, model_files, idx, workdir,
                   file, opened, file0, last, exc, steps, result>>

\* lines 173-192: the simulation command exits with ret, having written `made`
RunCommand ==
    /\ pc = "run_lmp"
    /\ \E ret \in {0, 1}, made \in SUBSET OutputNames :
        /\ workdir' = [n \in made |-> [kind |-> "output", src |-> -1]] @@ workdir
        /\ IF LmpFailed(ret)
           THEN Raise("TransientError") /\ Step("lmp", FALSE, ret)
           ELSE /\ pc' = "collect"
                /\ cwd' = set_directory_exit(saved)
                /\ Step("lmp", TRUE, ret)
                /\ UNCHANGED exc
    /\ UNCHANGED <<cfg, models, inputs, saved, model_files, idx,
                   file, opened, file0, last, result>>

\* lines 194-206
Collect ==
    /\ pc = "collect"
    /\ result' = [returned |-> TRUE,
                  keys |-> {"log", "traj", "model_devi"}
                           \cup (IF plm_output_name \in DOMAIN workdir
                                 THEN {"plm_output"} ELSE {})]
    /\ pc' = "returned"
    /\ UNCHANGED <<cfg, models, inputs, cwd, saved, model_files, idx, workdir,
                   file, opened, file0, last, exc, steps>>

Next ==
    \/ Normalize \/ TeacherPrep \/ Enter \/ LinkInputs
    \/ LinkModel \/ FreezeModel \/ PassModel \/ ModelsDone
    \/ TeacherPatch \/ SkipTeacherPatch \/ ShufflePatch \/ SkipShufflePatch
    \/ RunCommand \/ Collect

Spec == Init /\ [][Next]_vars

\* ------------------------------------- the patching functions on their own
PatchInit ==
    /\ cfg = [teacher_model_path |-> TRUE, shuffle_models |-> TRUE,
              impl |-> "tensorflow", unknown_key |-> FALSE]
    /\ models = <<1>>
    /\ inputs = {lmp_conf_name, lmp_input_name}
    /\ pc = "call"
    /\ cwd = TaskDir
    /\ saved = OrigDir
    /\ model_files = <<>>
    /\ idx = 0
    /\ workdir = <<>>
    /\ file \in DriverFiles
    /\ opened = TRUE
    /\ file0 = file
    /\ last = NoCall
    /\ exc = "none"
    /\ steps = <<>>
    /\ result = NoResult

CallFrame == <<cfg, models, inputs, pc, cwd, saved, model_files, idx, workdir,
               opened, file0, exc, steps, result>>

\* add_teacher_model(lmp_input_name) on a driver file
CallAddTeacher ==
    /\ pc = "call" /\ last.fn = "none"
    /\ LET r == add_teacher_model(file)
       IN /\ file' = r.out
          /\ last' = [fn |-> "add_teacher_model", before |-> file, exc |-> r.exc]
    /\ UNCHANGED CallFrame

\* randomly_shuffle_models(lmp_input_name) on a driver file, or on one that
\* add_teacher_model has patched
CallShuffle ==
    /\ pc = "call" /\ last.fn # "randomly_shuffle_models" /\ last.exc = "none"
    /\ \E r \in randomly_shuffle_models(file) :
          /\ file' = r.out
          /\ last' = [fn |-> "randomly_shuffle_models", before |-> file, exc |-> r.exc]
    /\ UNCHANGED CallFrame

PatchNext == CallAddTeacher \/ CallShuffle

PatchSpec == PatchInit /\ [][PatchNext]_vars

\* ===================================================== the properties
\* vocabulary of the properties, read off the driver file's text alone
IsKeywordLine(line) ==
    LET w == split(line)
    IN Len(w) >= 2 /\ w[1] = <<"pair_style">> /\ w[2] = <<"deepmd">>
KeywordLines(content) ==
    {i \in 1..Len(readlines(content)) : IsKeywordLine(readlines(content)[i])}
OneKeywordLine(content) == Cardinality(KeywordLines(content)) = 1
KeywordIndex(content) == CHOOSE i \in KeywordLines(content) : TRUE
KeywordTokens(content) == split(readlines(content)[KeywordIndex(content)])
\* first position of the contiguous run of model tokens (0 when there is none)
RunFirst(toks) ==
    IF \E i \in 1..Len(toks) : model_name_match(toks[i])
    THEN Min({i \in 1..Len(toks) : model_name_match(toks[i])})
    ELSE 0
\* first position after the run
RunEnd(toks) ==
    Min({j \in (RunFirst(toks) + 1)..(Len(toks) + 1) :
            j = Len(toks) + 1 \/ ~model_name_match(toks[j])})
Count(seq, t) == Cardinality({i \in 1..Len(seq) : seq[i] = t})
SameMultiset(s1, s2) ==
    /\ Len(s1) = Len(s2)
    /\ \A i \in 1..Len(s1) : Count(s1, s1[i]) = Count(s2, s1[i])
\* every line but the keyword line of `before` is the same line in `after`
OtherLinesSame(before, after) ==
    LET lb == readlines(before)
        la == readlines(after)
    IN /\ Len(la) = Len(lb)
       /\ \A i \in 1..Len(lb) : i # KeywordIndex(before) => la[i] = lb[i]
ShuffleDone == last.fn = "randomly_shuffle_models" /\ last.exc = "none"
TeacherDone == last.fn = "add_teacher_model" /\ last.exc = "none"
LastStep == steps[Len(steps)]
M0 == <<model_name_pattern(0)>>
M1 == <<model_name_pattern(1)>>

\* C1: when randomly_shuffle_models completes, the keyword line of the file has
\* as many tokens as before, every token outside the run of model tokens is the
\* same token at the same position, and the run holds the same multiset.
C1_ShufflePermutesOnlyTheRun ==
    ShuffleDone =>
        /\ OneKeywordLine(file)
        /\ LET b == KeywordTokens(last.before)
               a == KeywordTokens(file)
               f == RunFirst(b)
               e == RunEnd(b)
           IN /\ Len(a) = Len(b)
              /\ \A i \in 1..Len(b) : (i < f \/ i >= e) => a[i] = b[i]
              /\ SameMultiset(SubSeq(a, f, e - 1), SubSeq(b, f, e - 1))

\* C2: when randomly_shuffle_models completes, the file has as many lines as
\* before and every line other than the keyword line is unchanged.
C2_ShuffleLeavesOtherLines ==
    ShuffleDone => OtherLinesSame(last.before, file)

\* C3: when add_teacher_model completes, exactly one token of the keyword line,
\* equal to the index-0 model name, was replaced by the index-0 and index-1
\* names, and every other token and every other line is unchanged.
C3_TeacherReplacesOneToken ==
    TeacherDone =>
        /\ OtherLinesSame(last.before, file)
        /\ OneKeywordLine(file)
        /\ LET b == KeywordTokens(last.before)
               a == KeywordTokens(file)
           IN \E j \in 1..Len(b) :
                 /\ b[j] = M0
                 /\ a = SubSeq(b, 1, j - 1) \o <<M0, M1>> \o SubSeq(b, j + 1, Len(b))

\* C4: when add_teacher_model or randomly_shuffle_models raises, the content of
\* the driver file after the call equals its content before the call.
C4_FailedPatchLeavesFile ==
    (last.fn # "none" /\ last.exc # "none") => file = last.before

\* a shuffle that raised because a model token recurs after the run
C4_Witness ==
    /\ last.fn = "randomly_shuffle_models" /\ last.exc = "RuntimeError"
    /\ OneKeywordLine(last.before)
    /\ LET b == KeywordTokens(last.before)
       IN /\ RunFirst(b) > 0
          /\ \E i \in RunEnd(b)..Len(b) : model_name_match(b[i])
    /\ file = last.before

\* C5: a non-zero exit code of the freeze or the simulation command ends execute
\* with TransientError and no result; a zero exit code of the simulation command
\* leads to the result and to no exception; TransientError comes from nothing
\* but a non-zero exit code (never from a structural failure).
C5_ExitCodeDecidesOutcome ==
    /\ \A i \in 1..Len(steps) :
          (steps[i].op \in {"freeze", "lmp"} /\ steps[i].ret # 0) =>
              /\ i = Len(steps)
              /\ pc = "raised" /\ exc = "TransientError" /\ ~result.returned
    /\ \A i \in 1..Len(steps) :
          (steps[i].op = "lmp" /\ steps[i].ret = 0) =>
              /\ pc \in {"collect", "returned"} /\ exc = "none"
              /\ pc = "returned" => result.returned
    /\ exc = "TransientError" =>
          /\ steps # <<>>
          /\ LastStep.op \in {"freeze", "lmp"} /\ LastStep.ret # 0
    /\ (pc = "raised" /\ (steps = <<>> \/ LastStep.op \notin {"freeze", "lmp"})) =>
          exc \in {"ArgumentKeyError", "AssertionError", "RuntimeError",
                   "FileExistsError", "FileNotFoundError"}

\* the second freeze command exited with a non-zero code
C5_Witness ==
    /\ pc = "raised" /\ exc = "TransientError"
    /\ Len(steps) = 3 /\ steps[2].op = "freeze" /\ steps[2].ret = 0
    /\ steps[3].op = "freeze" /\ steps[3].ret # 0

\* C6: whenever execute returns a result, the log, trajectory and
\* model-deviation files it names exist in the task directory.
C6_ReturnedOutputsExist ==
    result.returned =>
        {lmp_log_name, lmp_traj_name, lmp_model_devi_name} \subseteq DOMAIN workdir

\* C7: the working directory after execute ends is the one before it started,
\* on every exit path, and it is the task directory during staging, patching
\* and command execution.
C7_WorkingDirectoryScoped ==
    /\ pc \in {"collect", "returned", "raised"} => cwd = OrigDir
    /\ pc \in {"link_inputs", "link_models", "teacher_patch", "shuffle_patch", "run_lmp"}
          => cwd = TaskDir

\* execute was ended inside the task directory by a symlink that could not be made
C7_Witness ==
    /\ pc = "raised" /\ exc = "FileExistsError" /\ cwd = OrigDir
    /\ steps # <<>> /\ LastStep.op = "link_model" /\ ~LastStep.ok

StepRank(op) ==
    CASE op = "link_inputs" -> 1
      [] op \in {"link_model", "freeze"} -> 2
      [] op = "add_teacher_model" -> 3
      [] op = "randomly_shuffle_models" -> 4
      [] op = "lmp" -> 5
StepsOfRank(r) == {i \in 1..Len(steps) : StepRank(steps[i].op) = r}

\* C8: the steps of execute occur in the order inputs, models (one freeze per
\* model for pytorch), teacher patch, shuffle patch, simulation; the shuffle
\* reads the file the teacher patch wrote; the simulation runs at most once and
\* only after every earlier step succeeded; nothing runs after a failed step.
C8_StepsInFixedOrder ==
    /\ \A i, j \in 1..Len(steps) :
          i < j => StepRank(steps[i].op) <= StepRank(steps[j].op)
    /\ \A r \in {1, 3, 4, 5} : Cardinality(StepsOfRank(r)) <= 1
    /\ Cardinality(StepsOfRank(2)) <= Len(model_files)
    /\ \A i \in StepsOfRank(2) :
          /\ cfg.impl \in {"tensorflow", "pytorch"}
          /\ steps[i].op = "freeze" <=> cfg.impl = "pytorch"
    /\ \A i \in 1..Len(steps) : i < Len(steps) => (steps[i].ok /\ steps[i].ret = 0)
    /\ StepsOfRank(3) # {} => cfg.teacher_model_path
    /\ StepsOfRank(4) # {} =>
          /\ cfg.shuffle_models
          /\ StepsOfRank(3) # {} <=> cfg.teacher_model_path
    /\ (last.fn = "randomly_shuffle_models" /\ StepsOfRank(3) # {}) =>
          last.before = add_teacher_model(file0).out
    /\ StepsOfRank(5) # {} =>
          /\ StepsOfRank(1) # {}
          /\ cfg.impl \in {"tensorflow", "pytorch"} =>
                Cardinality(StepsOfRank(2)) = Len(model_files)
          /\ StepsOfRank(3) # {} <=> cfg.teacher_model_path
          /\ StepsOfRank(4) # {} <=> cfg.shuffle_models

\* a run with a teacher, a shuffle and two freeze commands came to its end
C8_Witness ==
    /\ pc = "returned" /\ cfg.teacher_model_path /\ cfg.shuffle_models
    /\ cfg.impl = "pytorch"
    /\ Len(steps) = 6 /\ steps[6].op = "lmp"
    /\ last.before # file0

\* C9: on a file with exactly one keyword line, randomly_shuffle_models raises
\* exactly when no token of the line is a model name or a model name appears
\* after the end of the first run of model names.
C9_ShuffleRaisesExactlyWhen ==
    (last.fn = "randomly_shuffle_models" /\ OneKeywordLine(last.before)) =>
        LET b == KeywordTokens(last.before)
        IN last.exc # "none" <=>
              \/ RunFirst(b) = 0
              \/ \E i \in RunEnd(b)..Len(b) : model_name_match(b[i])

\* C10: when the simulation command is invoked, the task directory holds for
\* every index i of the model list a file of the index-i name made from the
\* i-th model; with a teacher, index 0 is the teacher, index 1 the caller's.
C10_ModelsStagedAtRun ==
    pc = "run_lmp" =>
        /\ \A i \in 0..(Len(model_files) - 1) :
              /\ model_name_pattern(i) \in DOMAIN workdir
              /\ workdir[model_name_pattern(i)].kind \in {"model", "frozen"}
              /\ workdir[model_name_pattern(i)].src = model_files[i + 1]
        /\ cfg.teacher_model_path => model_files = <<TeacherModel, models[1]>>
=============================================================================
